---- MODULE Spec2Model ----
(***************************************************************************)
(* Model of the prediction form controller in src/app/page.tsx: the React  *)
(* component Home, its four pieces of state, its event handlers and the    *)
(* two suspension points of the asynchronous handleSubmit.                 *)
(*                                                                         *)
(* Texts are sequences of one-character strings so that parseFloat can be  *)
(* computed character by character, as ECMAScript does.  Numbers are       *)
(* decimal values mant * 10^exp in normal form; every text of the model    *)
(* has fewer than 15 significant digits, for which the conversion text ->  *)
(* double -> JSON text is exact, so decimals stand for the doubles.        *)
(***************************************************************************)
EXTENDS Integers, Sequences, FiniteSets, TLC

\* Number of entries of the form: Array(30).
NumFields == 30

\* How many of the 30 positions the modelled user edits by hand.
MaxEdited == 1

Indices == 0 .. (NumFields - 1)

\* The positions the user types into: the first one, then the last ones.
EditIdx == {0} \cup {NumFields - j : j \in 1 .. (MaxEdited - 1)}

\* Nullable values (T | null).
None == <<>>
Some(x) == <<x>>

----------------------------------------------------------------------------
(* Texts *)

EmptyText == <<>>

\* What the user types into a field.
Texts ==
    { EmptyText,
      <<"a", "b", "c">>,
      <<"1", "2", "p", "x">>,
      <<" ", "-", "1", ".", "5", "0", "e", "1">>,
      <<"I", "n", "f", "i", "n", "i", "t", "y">> }

\* The sample data of handleFillSample, by index 0..29.
SampleRows ==
    <<
       <<"1", "7", ".", "9", "9">>,
       <<"1", "0", ".", "3", "8">>,
       <<"1", "2", "2", ".", "8">>,
       <<"1", "0", "0", "1">>,
       <<"0", ".", "1", "1", "8", "4">>,
       <<"0", ".", "2", "7", "7", "6">>,
       <<"0", ".", "3", "0", "0", "1">>,
       <<"0", ".", "1", "4", "7", "1">>,
       <<"0", ".", "2", "4", "1", "9">>,
       <<"0", ".", "0", "7", "8", "7", "1">>,
       <<"1", ".", "0", "9", "5">>,
       <<"0", ".", "9", "0", "5", "3">>,
       <<"8", ".", "5", "8", "9">>,
       <<"1", "5", "3", ".", "4">>,
       <<"0", ".", "0", "0", "6", "3", "9", "9">>,
       <<"0", ".", "0", "4", "9", "0", "4">>,
       <<"0", ".", "0", "5", "3", "7", "3">>,
       <<"0", ".", "0", "1", "5", "8", "7">>,
       <<"0", ".", "0", "3", "0", "0", "3">>,
       <<"0", ".", "0", "0", "6", "1", "9", "3">>,
       <<"2", "5", ".", "3", "8">>,
       <<"1", "7", ".", "3", "3">>,
       <<"1", "8", "4", ".", "6">>,
       <<"2", "0", "1", "9">>,
       <<"0", ".", "1", "6", "2", "2">>,
       <<"0", ".", "6", "6", "5", "6">>,
       <<"0", ".", "7", "1", "1", "9">>,
       <<"0", ".", "2", "6", "5", "4">>,
       <<"0", ".", "2", "3">>,
       <<"0", ".", "4", "5">> >>

SampleData == [i \in Indices |-> SampleRows[i + 1]]

EmptyData == [i \in Indices |-> EmptyText]

----------------------------------------------------------------------------
(* Numbers and parseFloat *)

\* A number is NaN, +-Infinity or the decimal (-1)^neg * mant * 10^exp.
NaN == [kind |-> "NaN", neg |-> FALSE, mant |-> 0, exp |-> 0]

Infinity(neg) == [kind |-> "Infinity", neg |-> neg, mant |-> 0, exp |-> 0]

RECURSIVE Normal(_, _, _)
\* The normal form of a decimal: no trailing zero in mant, and one zero
\* (-0 and 0 are the same number for === and for JSON.stringify).
Normal(neg, mant, exp) ==
    IF mant = 0 THEN [kind |-> "number", neg |-> FALSE, mant |-> 0, exp |-> 0]
    ELSE IF mant % 10 = 0 THEN Normal(neg, mant \div 10, exp + 1)
    ELSE [kind |-> "number", neg |-> neg, mant |-> mant, exp |-> exp]

isNaN(v) == v.kind = "NaN"

isFinite(v) == v.kind = "number"

DigitChars == <<"0", "1", "2", "3", "4", "5", "6", "7", "8", "9">>

IsDigit(c) == \E d \in 1 .. 10 : DigitChars[d] = c

DigitVal(c) == (CHOOSE d \in 1 .. 10 : DigitChars[d] = c) - 1

\* StrWhiteSpaceChar, as far as the texts of the model use it.
WhiteSpace == {" "}

Drop(s, n) == SubSeq(s, n + 1, Len(s))

StartsWith(s, p) == Len(s) >= Len(p) /\ SubSeq(s, 1, Len(p)) = p

RECURSIVE TrimStart(_)
TrimStart(s) ==
    IF s # <<>> /\ Head(s) \in WhiteSpace THEN TrimStart(Tail(s)) ELSE s

RECURSIVE DigitRun(_)
\* Length of the longest prefix of s made of decimal digits.
DigitRun(s) ==
    IF s # <<>> /\ IsDigit(Head(s)) THEN 1 + DigitRun(Tail(s)) ELSE 0

RECURSIVE DigitsValue(_, _)
\* The value of the first n characters of s, all digits.
DigitsValue(s, n) ==
    IF n = 0 THEN 0 ELSE DigitsValue(s, n - 1) * 10 + DigitVal(s[n])

InfinityText == <<"I", "n", "f", "i", "n", "i", "t", "y">>

\* The longest prefix of t that is a StrDecimalLiteral: its value and the
\* number of characters of t it takes (len = 0 and NaN when there is none).
DecimalPrefix(t) ==
    LET signed == t # <<>> /\ Head(t) \in {"+", "-"}
        neg == signed /\ Head(t) = "-"
        sl == IF signed THEN 1 ELSE 0
        u == Drop(t, sl)
    IN  IF StartsWith(u, InfinityText)
        THEN [value |-> Infinity(neg), len |-> sl + Len(InfinityText)]
        ELSE
          LET ni == DigitRun(u)
              afterInt == Drop(u, ni)
              hasDot == afterInt # <<>> /\ Head(afterInt) = "."
              nf == IF hasDot THEN DigitRun(Tail(afterInt)) ELSE 0
              dl == IF hasDot THEN 1 ELSE 0
              mant == DigitsValue(u, ni) * (10 ^ nf)
                        + DigitsValue(Drop(u, ni + dl), nf)
              afterMant == Drop(u, ni + dl + nf)
              hasE == afterMant # <<>> /\ Head(afterMant) \in {"e", "E"}
              e1 == IF hasE THEN Tail(afterMant) ELSE <<>>
              esigned == e1 # <<>> /\ Head(e1) \in {"+", "-"}
              eneg == esigned /\ Head(e1) = "-"
              esl == IF esigned THEN 1 ELSE 0
              ne == DigitRun(Drop(e1, esl))
              ev == DigitsValue(Drop(e1, esl), ne)
              expo == IF ne = 0 THEN 0 ELSE IF eneg THEN 0 - ev ELSE ev
              el == IF ne = 0 THEN 0 ELSE 1 + esl + ne
          IN  IF ni + nf = 0
              THEN [value |-> NaN, len |-> 0]
              ELSE [value |-> Normal(neg, mant, expo - nf),
                    len |-> sl + ni + dl + nf + el]

\* parseFloat(val): leading white space is skipped, the longest numeric
\* prefix is converted and whatever follows it is ignored.
parseFloat(val) == DecimalPrefix(TrimStart(val)).value

\* The text as a whole is a number: a numeric literal takes all of it,
\* apart from surrounding white space.
IsNumericText(val) ==
    LET t == TrimStart(val)
        p == DecimalPrefix(t)
    IN  /\ p.len > 0
        /\ TrimStart(Drop(t, p.len)) = <<>>

----------------------------------------------------------------------------
(* The request and the responses *)

JsonNull == [kind |-> "null", neg |-> FALSE, mant |-> 0, exp |-> 0]

\* JSON.stringify of one number: a finite number is written out, NaN and
\* the infinities become null.
JSONNumber(v) == IF isFinite(v) THEN v ELSE JsonNull

\* inputValues.map(val => parseFloat(val))
numericValuesOf(values) == [i \in Indices |-> parseFloat(values[i])]

\* numericValues.some(isNaN)
SomeIsNaN(numericValues) == \E i \in Indices : isNaN(numericValues[i])

\* Variant: the array is written out back to front.
RequestBodyReversed(numericValues) ==
    [input_data |->
        [i \in Indices |-> JSONNumber(numericValues[NumFields - 1 - i])]]

\* JSON.stringify({ input_data: numericValues })
RequestBody(numericValues) ==
    [input_data |-> [i \in Indices |-> JSONNumber(numericValues[i])]]

EndpointUrl == "https://cancer-web-production.up.railway.app/predict/"

\* The arguments of fetch.
Request(numericValues) ==
    [url |-> EndpointUrl,
     method |-> "POST",
     contentType |-> "application/json",
     body |-> RequestBody(numericValues)]

\* Status codes the service answers with.
Statuses == {200, 299, 300, 500}

\* Parsed response bodies.
Bodies == {[prediction |-> 0], [prediction |-> 1]}

\* Messages of the errors fetch rejects with (the empty one: an error
\* without a message).
FetchMessages == {"Failed to fetch", ""}

\* Messages of the errors response.json() rejects with.
JsonMessages == {"Unexpected end of JSON input", ""}

ValidationMessage == "All fields must contain valid numbers"

FallbackMessage == "An error occurred while making the prediction"

\* Variant: every status below 400 counts as a success.
ResponseOkBelow400(status) == status \in 200 .. 399

\* response.ok
ResponseOk(status) == status \in 200 .. 299

\* `API error: ${response.status}`
ApiErrorMessage(status) == "API error: " \o ToString(status)

\* Variant: the message is used as it is, without the fallback.
CatchMessageRaw(message) == message

\* (err as Error).message || 'An error occurred while making the prediction'
CatchMessage(message) == IF message # "" THEN message ELSE FallbackMessage

----------------------------------------------------------------------------
(* State *)

VARIABLES
    inputValues,       \* useState<string[]>: the 30 texts, by index 0..29
    predictionResult,  \* useState<PredictionResult | null>
    isLoading,         \* useState<boolean>
    error,             \* useState<string | null>
    pending,           \* the suspended calls of handleSubmit, with their locals
    last,              \* history: the handler step taken last, with its inputs
    resetDuring        \* history: handleReset ran since the last submit, and
                       \* a call of handleSubmit was suspended when it ran

vars == <<inputValues, predictionResult, isLoading, error, pending, last,
          resetDuring>>

Event(op) ==
    [op |-> op, index |-> 0, text |-> EmptyText, calls |-> 0, status |-> 0,
     message |-> "", data |-> None]

Init ==
    /\ inputValues = EmptyData
    /\ predictionResult = None
    /\ isLoading = FALSE
    /\ error = None
    /\ pending = <<>>
    /\ last = Event("mount")
    /\ resetDuring = FALSE

Remove(s, k) == SubSeq(s, 1, k - 1) \o SubSeq(s, k + 1, Len(s))

----------------------------------------------------------------------------
(* Handlers *)

\* Variant: typing into a field also dismisses the error banner.
UpdateFieldClearsError(index, value) ==
    /\ inputValues' = [inputValues EXCEPT ![index] = value]
    /\ error' = None
    /\ last' = [Event("updateField") EXCEPT !.index = index, !.text = value]
    /\ UNCHANGED <<predictionResult, isLoading, pending, resetDuring>>

\* handleInputChange(index, value)
UpdateField(index, value) ==
    /\ inputValues' = [inputValues EXCEPT ![index] = value]
    /\ last' = [Event("updateField") EXCEPT !.index = index, !.text = value]
    /\ UNCHANGED <<predictionResult, isLoading, error, pending, resetDuring>>

\* handleFillSample
FillSample ==
    /\ inputValues' = SampleData
    /\ last' = Event("fillSample")
    /\ UNCHANGED <<predictionResult, isLoading, error, pending, resetDuring>>

\* Variant: the error banner survives the reset.
ResetKeepsError ==
    /\ inputValues' = EmptyData
    /\ predictionResult' = None
    /\ last' = Event("reset")
    /\ resetDuring' = (pending # <<>>)
    /\ UNCHANGED <<isLoading, error, pending>>

\* Variant: the reset abandons the request in flight.
ResetCancels ==
    /\ inputValues' = EmptyData
    /\ predictionResult' = None
    /\ error' = None
    /\ isLoading' = FALSE
    /\ pending' = <<>>
    /\ last' = Event("reset")
    /\ resetDuring' = (pending # <<>>)

\* handleReset
Reset ==
    /\ inputValues' = EmptyData
    /\ predictionResult' = None
    /\ error' = None
    /\ last' = Event("reset")
    /\ resetDuring' = (pending # <<>>)
    /\ UNCHANGED <<isLoading, pending>>

\* Variant: the button is never disabled.
AlwaysEnabled == TRUE

\* The submit button is disabled while isLoading, and a disabled default
\* button also blocks the implicit submission by the Enter key.
SubmitEnabled == ~isLoading

\* Variant: the validation branch returns without clearing the flag.
SubmitKeepsLoading ==
    /\ SubmitEnabled
    /\ LET numericValues == numericValuesOf(inputValues)
       IN  IF SomeIsNaN(numericValues)
           THEN /\ error' = Some(ValidationMessage)
                /\ isLoading' = TRUE
                /\ pending' = pending
                /\ last' = [Event("submit") EXCEPT !.calls = 0]
           ELSE /\ error' = None
                /\ isLoading' = TRUE
                /\ pending' = Append(pending,
                                [pc |-> "fetch",
                                 inputValues |-> inputValues,
                                 numericValues |-> numericValues,
                                 request |-> Request(numericValues)])
                /\ last' = [Event("submit") EXCEPT !.calls = 1]
    /\ resetDuring' = FALSE
    /\ UNCHANGED <<inputValues, predictionResult>>

\* Variant: a new submission discards the result on display.
SubmitClearsResult ==
    /\ SubmitEnabled
    /\ LET numericValues == numericValuesOf(inputValues)
       IN  IF SomeIsNaN(numericValues)
           THEN /\ error' = Some(ValidationMessage)
                /\ isLoading' = FALSE
                /\ pending' = pending
                /\ last' = [Event("submit") EXCEPT !.calls = 0]
           ELSE /\ error' = None
                /\ isLoading' = TRUE
                /\ pending' = Append(pending,
                                [pc |-> "fetch",
                                 inputValues |-> inputValues,
                                 numericValues |-> numericValues,
                                 request |-> Request(numericValues)])
                /\ last' = [Event("submit") EXCEPT !.calls = 1]
    /\ resetDuring' = FALSE
    /\ predictionResult' = None
    /\ UNCHANGED inputValues

\* handleSubmit, from the submit event to the first await or to the return
\* of the validation branch.
Submit ==
    /\ SubmitEnabled
    /\ LET numericValues == numericValuesOf(inputValues)
       IN  IF SomeIsNaN(numericValues)
           THEN /\ error' = Some(ValidationMessage)
                /\ isLoading' = FALSE
                /\ pending' = pending
                /\ last' = [Event("submit") EXCEPT !.calls = 0]
           ELSE /\ error' = None
                /\ isLoading' = TRUE
                /\ pending' = Append(pending,
                                [pc |-> "fetch",
                                 inputValues |-> inputValues,
                                 numericValues |-> numericValues,
                                 request |-> Request(numericValues)])
                /\ last' = [Event("submit") EXCEPT !.calls = 1]
    /\ resetDuring' = FALSE
    /\ UNCHANGED <<inputValues, predictionResult>>

\* fetch resolves with a response of the given status: a failure status
\* throws into the catch and the finally, a 2xx goes on to response.json().
FetchResolve(k, status) ==
    /\ pending[k].pc = "fetch"
    /\ last' = [Event("fetchResolve") EXCEPT !.status = status]
    /\ IF ResponseOk(status)
       THEN /\ pending' = [pending EXCEPT ![k].pc = "json"]
            /\ UNCHANGED <<isLoading, error>>
       ELSE /\ error' = Some(CatchMessage(ApiErrorMessage(status)))
            /\ isLoading' = FALSE
            /\ pending' = Remove(pending, k)
    /\ UNCHANGED <<inputValues, predictionResult, resetDuring>>

\* fetch rejects (DNS, connection reset, ...): catch, then finally.
FetchReject(k, message) ==
    /\ pending[k].pc = "fetch"
    /\ error' = Some(CatchMessage(message))
    /\ isLoading' = FALSE
    /\ pending' = Remove(pending, k)
    /\ last' = [Event("fetchReject") EXCEPT !.message = message]
    /\ UNCHANGED <<inputValues, predictionResult, resetDuring>>

\* response.json() resolves with the parsed body: setPredictionResult,
\* then finally.
JsonResolve(k, data) ==
    /\ pending[k].pc = "json"
    /\ predictionResult' = Some(data)
    /\ isLoading' = FALSE
    /\ pending' = Remove(pending, k)
    /\ last' = [Event("jsonResolve") EXCEPT !.data = Some(data)]
    /\ UNCHANGED <<inputValues, error, resetDuring>>

\* response.json() rejects (the body is not JSON): catch, then finally.
JsonReject(k, message) ==
    /\ pending[k].pc = "json"
    /\ error' = Some(CatchMessage(message))
    /\ isLoading' = FALSE
    /\ pending' = Remove(pending, k)
    /\ last' = [Event("jsonReject") EXCEPT !.message = message]
    /\ UNCHANGED <<inputValues, predictionResult, resetDuring>>

Next ==
    \/ \E index \in EditIdx, value \in Texts : UpdateField(index, value)
    \/ FillSample
    \/ Reset
    \/ Submit
    \/ \E k \in DOMAIN pending, status \in Statuses : FetchResolve(k, status)
    \/ \E k \in DOMAIN pending, message \in FetchMessages : FetchReject(k, message)
    \/ \E k \in DOMAIN pending, data \in Bodies : JsonResolve(k, data)
    \/ \E k \in DOMAIN pending, message \in JsonMessages : JsonReject(k, message)

Spec == Init /\ [][Next]_vars

----------------------------------------------------------------------------
(* Properties *)

AllFinite(values) == \A i \in Indices : isFinite(parseFloat(values[i]))

FailureStatus(status) == status < 200 \/ status > 299

\* C1: after submit() on a Feature Vector with at least one non-numeric
\* entry (the empty text included), no network call was issued, the error
\* is "All fields must contain valid numbers" and the in-flight flag is
\* false.
C1_NonNumericRejected ==
    (last.op = "submit" /\ \E i \in Indices : ~IsNumericText(inputValues[i]))
        => /\ last.calls = 0
           /\ pending = <<>>
           /\ error = Some("All fields must contain valid numbers")
           /\ isLoading = FALSE

\* C2: submit() on a Feature Vector whose entries all parse as finite
\* numbers issues exactly one POST, and the input_data of a request in
\* flight is the 30-element array of the parsed values of the entries as
\* they were when submit() started, position by position, whatever has been
\* edited since.
C2_PostBody ==
    /\ (last.op = "submit" /\ AllFinite(inputValues))
          => /\ last.calls = 1
             /\ Len(pending) = 1
             /\ pending[1].pc = "fetch"
             /\ pending[1].inputValues = inputValues
    /\ \A k \in DOMAIN pending :
          AllFinite(pending[k].inputValues)
             => /\ pending[k].request.method = "POST"
                /\ DOMAIN pending[k].request.body.input_data = 0 .. 29
                /\ \A i \in 0 .. 29 :
                      /\ pending[k].request.body.input_data[i].kind = "number"
                      /\ pending[k].request.body.input_data[i]
                            = parseFloat(pending[k].inputValues[i])

C2_Witness ==
    /\ Len(pending) = 1
    /\ pending[1].pc = "fetch"
    /\ AllFinite(pending[1].inputValues)
    /\ inputValues # pending[1].inputValues
    /\ pending[1].inputValues[0] = <<" ", "-", "1", ".", "5", "0", "e", "1">>

\* C3: the in-flight flag is true exactly while a submission has started
\* and has not yet ended in a validation failure, a received response or a
\* failed request, and it is false after every exit of submit().
C3_InFlightFlag ==
    /\ isLoading <=> (pending # <<>>)
    /\ (last.op = "submit" /\ last.calls = 0) => ~isLoading
    /\ (last.op = "fetchResolve" /\ FailureStatus(last.status)) => ~isLoading
    /\ last.op \in {"fetchReject", "jsonResolve", "jsonReject"} => ~isLoading

C3_Witness ==
    /\ isLoading
    /\ Len(pending) = 1
    /\ pending[1].pc = "json"
    /\ last.op = "updateField"

\* C4: reset() leaves 30 empty texts, no Prediction Result and no error,
\* from whatever state it is called, and a second reset() right after the
\* first changes nothing.
C4_Reset ==
    /\ [](last.op = "reset"
            => /\ inputValues = [i \in 0 .. 29 |-> <<>>]
               /\ predictionResult = None
               /\ error = None)
    /\ [][(last.op = "reset" /\ last'.op = "reset") => UNCHANGED vars]_vars

C4_Witness ==
    /\ last.op = "reset"
    /\ inputValues = EmptyData
    /\ isLoading
    /\ pending # <<>>

\* C5: a response with a non-2xx status s ends the submission with the
\* error "API error: s" and the in-flight flag false, and its body is
\* neither read nor stored as the Prediction Result.
C5_ApiError ==
    /\ []((last.op = "fetchResolve" /\ FailureStatus(last.status))
            => /\ error = Some("API error: " \o ToString(last.status))
               /\ (last.status = 500 => error = Some("API error: 500"))
               /\ (last.status = 300 => error = Some("API error: 300"))
               /\ isLoading = FALSE
               /\ pending = <<>>)
    /\ [][(last'.op = "fetchResolve" /\ FailureStatus(last'.status))
            => predictionResult' = predictionResult]_vars

C5_Witness ==
    /\ last.op = "fetchResolve"
    /\ last.status = 500
    /\ error = Some("API error: 500")
    /\ predictionResult # None

\* C6: when fetch or response.json() fails, the submission ends with the
\* error set to the failure's message if it has one and to "An error
\* occurred while making the prediction" if it has none; the error is
\* never absent then.
C6_FailureMessage ==
    last.op \in {"fetchReject", "jsonReject"}
        => /\ error # None
           /\ last.message # "" => error = Some(last.message)
           /\ last.message = ""
                => error = Some("An error occurred while making the prediction")

C6_Witness ==
    /\ last.op = "jsonReject"
    /\ last.message = ""
    /\ error = Some(FallbackMessage)

\* C7: the Feature Vector always has exactly 30 entries, and
\* updateField(i, t) sets entry i to t as typed and leaves the other
\* entries, the Prediction Result, the error and the in-flight flag alone.
C7_UpdateField ==
    /\ [](DOMAIN inputValues = 0 .. 29)
    /\ [][last'.op = "updateField"
            => /\ last'.index \in 0 .. 29
               /\ inputValues'[last'.index] = last'.text
               /\ \A i \in 0 .. 29 :
                     i # last'.index => inputValues'[i] = inputValues[i]
               /\ UNCHANGED <<predictionResult, error, isLoading>>]_vars

C7_Witness ==
    /\ last.op = "updateField"
    /\ last.text = <<"1", "2", "p", "x">>
    /\ inputValues[last.index] = last.text
    /\ error # None
    /\ predictionResult # None

\* C8: the Prediction Result changes only when a response body has been
\* parsed, which stores that body, and on reset(), which removes it; every
\* other step leaves it as it is.
C8_ResultFrame ==
    [][/\ last'.op = "jsonResolve" => predictionResult' = last'.data
       /\ last'.op = "reset" => predictionResult' = None
       /\ last'.op \notin {"jsonResolve", "reset"}
            => predictionResult' = predictionResult]_vars

\* A result of an earlier submission next to the error of a later one.
C8_Witness ==
    /\ predictionResult = Some([prediction |-> 1])
    /\ error # None
    /\ last.op \in {"fetchReject", "jsonReject", "fetchResolve", "submit"}

\* C9: a submit() begins only while the in-flight flag is false, and at
\* most one request is outstanding at any time.
C9_OneRequest ==
    /\ [](Len(pending) <= 1)
    /\ [][last'.op = "submit" => isLoading = FALSE]_vars

C9_Witness ==
    /\ Len(pending) = 1
    /\ pending[1].pc = "fetch"
    /\ isLoading
    /\ last.op = "fillSample"

\* C10: reset() during a request leaves the in-flight flag true and the
\* request outstanding, and the outcome of that request is applied when it
\* completes: the body becomes the Prediction Result, the failure message
\* the error.
C10_ResetInFlight ==
    /\ []((resetDuring /\ last.op = "reset") => (isLoading /\ Len(pending) = 1))
    /\ []((resetDuring /\ last.op = "jsonResolve")
            => (predictionResult = last.data /\ predictionResult # None))
    /\ []((resetDuring /\ last.op \in {"fetchReject", "jsonReject"})
            => error = Some(IF last.message = "" THEN FallbackMessage
                            ELSE last.message))
    /\ []((resetDuring /\ last.op = "fetchResolve" /\ FailureStatus(last.status))
            => error = Some(ApiErrorMessage(last.status)))
    /\ [][last'.op = "reset"
            => (pending' = pending /\ isLoading' = isLoading)]_vars

\* After a reset and with no further submit: a result, and 30 empty texts.
C10_Witness ==
    /\ resetDuring
    /\ last.op = "jsonResolve"
    /\ inputValues = EmptyData
    /\ predictionResult # None
====
